---- MODULE Spec2Model ----
(***************************************************************************)
(* The Computerized Adaptive Testing engine of StudyGPT's ml-backend:      *)
(* the IRT model (models/irt_model.py) and the /cat endpoints that drive   *)
(* it (routers/adaptive_testing.py).                                       *)
(*                                                                         *)
(* Numbers.  Abilities, difficulties and discriminations are integers (in  *)
(* logits).  Probabilities and the guessing parameter are fixed-point      *)
(* hundredths (Unit = 1.0).  A standard error is kept as the integer k     *)
(* with se = 1/sqrt(k): the only values the code produces are 1.0 and      *)
(* 1/sqrt(num_items).  A target_se is given in hundredths.                 *)
(***************************************************************************)
EXTENDS Integers, Sequences, FiniteSets, TLC

\* ---------------------------------------------------------------- inputs
Students == {"s1", "s2"}
TestIds == {"t1", "t2"}
Items == {"i1", "i2", "i3"}
\* The start requests <<student_id, test_id, item_bank>> made: a student
\* with two tests over different banks, and a test_id two students use.
StartInputs ==
  {<<"s1", "t1", <<"i1", "i2", "i3">> >>,
   <<"s1", "t2", <<"i2", "i1">> >>,
   <<"s2", "t2", <<"i1", "i2", "i3">> >>}
\* The answers <<item_id, is_correct>> submitted; "i3" is foreign to the
\* bank <<"i2", "i1">>.
SubmitInputs == {<<"i1", TRUE>>, <<"i2", FALSE>>, <<"i3", TRUE>>}
\* The number of start requests and of submit requests a run makes.
MaxStarts == 2
MaxSubmits == 2
\* The ability grid is -ThetaMax .. ThetaMax.
ThetaMax == 2

\* Python's None.
None == "None"
\* An empty dict.
EmptyDict == [x \in {} |-> 0]
\* d.get(k, default) of a dict.
DictGet(d, k, default) == IF k \in DOMAIN d THEN d[k] ELSE default
\* d[k] = v of a dict.
DictSet(d, k, v) == [x \in (DOMAIN d) \cup {k} |-> IF x = k THEN v ELSE d[x]]
\* del d[k] of a dict.
DictDel(d, k) == [x \in (DOMAIN d) \ {k} |-> d[x]]
\* set(seq)
SetOf(seq) == {seq[i] : i \in 1..Len(seq)}

\* ------------------------------------------------- ItemResponseTheory
\* 1.0 in fixed-point hundredths.
Unit == 100

\* scipy.special.expit on the integers, in hundredths.  On moderate
\* arguments it is never exactly 0 or 1; in double precision it is exactly
\* 1.0 from 37 on and exactly 0.0 from -746 down.
expit(x) ==
  LET pos(y) == CASE y = 0 -> 50 [] y = 1 -> 73 [] y = 2 -> 88 [] y = 3 -> 95
                  [] y = 4 -> 98 [] OTHER -> 99
  IN IF x >= 37 THEN Unit
     ELSE IF x <= -746 THEN 0
     ELSE IF x >= 0 THEN pos(x) ELSE Unit - pos(-x)

\* P(theta) = c + expit(a (theta - b)), without the factor (1 - c).
probability_correct_3pl_unscaled(ability, difficulty, discrimination, guessing) ==
  guessing + expit(discrimination * (ability - difficulty))

\* P(theta) = c + (1 - c) * expit(a (theta - b))
probability_correct_3pl(ability, difficulty, discrimination, guessing) ==
  LET exponent == discrimination * (ability - difficulty)
  IN guessing + ((Unit - guessing) * expit(exponent)) \div Unit

\* The parameters get_item_parameters assigns on first reference.
DefaultParameters == [difficulty |-> 0, discrimination |-> 1, guessing |-> 25]

\* get_item_parameters answering with the defaults whatever is stored.
get_item_parameters_reset(catalog, item_id) == DefaultParameters

\* The value get_item_parameters returns.
get_item_parameters(catalog, item_id) == DictGet(catalog, item_id, DefaultParameters)

\* The catalog after get_item_parameters has been called for each of ids.
touch_items(catalog, ids) ==
  [x \in (DOMAIN catalog) \cup ids |-> get_item_parameters(catalog, x)]

\* np.clip(prob, 1e-10, 1 - 1e-10): the smallest and largest representable
\* probabilities strictly inside (0, 1).
clip(prob) == IF prob < 1 THEN 1 ELSE IF prob > Unit - 1 THEN Unit - 1 ELSE prob

\* exp(-negative_log_likelihood(ability)): the product of the clipped
\* probabilities of the observed responses.  nll(x) < nll(y) exactly when
\* likelihood(x) > likelihood(y).
RECURSIVE likelihood(_, _, _)
likelihood(ability, responses, catalog) ==
  IF responses = <<>> THEN 1
  ELSE LET params == get_item_parameters(catalog, Head(responses)[1])
           prob == clip(probability_correct_3pl(ability, params.difficulty,
                          params.discrimination, params.guessing))
           term == IF Head(responses)[2] THEN prob ELSE Unit - prob
       IN term * likelihood(ability, Tail(responses), catalog)

\* options={'maxiter': 100}
maxiter == 100

\* scipy.optimize.minimize(nll, x0, method='BFGS') on the ability grid: a
\* descent from x0 that moves while the likelihood strictly improves, for
\* at most maxiter iterations, and returns the iterate it stops at.
RECURSIVE minimize(_, _, _, _)
minimize(x, responses, catalog, iterations) ==
  LET cur == likelihood(x, responses, catalog)
      up == IF x < ThetaMax THEN likelihood(x + 1, responses, catalog) ELSE -1
      down == IF x > -ThetaMax THEN likelihood(x - 1, responses, catalog) ELSE -1
  IN IF iterations = 0 THEN x
     ELSE IF up > cur /\ up >= down THEN minimize(x + 1, responses, catalog, iterations - 1)
     ELSE IF down > cur THEN minimize(x - 1, responses, catalog, iterations - 1)
     ELSE x

\* estimate_ability started at 0 whatever initial_ability is.
estimate_ability_from_zero(responses, initial_ability, catalog) ==
  minimize(0, responses, catalog, maxiter)

\* estimate_ability(responses, initial_ability)
estimate_ability(responses, initial_ability, catalog) ==
  minimize(initial_ability, responses, catalog, maxiter)

\* get_student_ability(student_id)
get_student_ability(abilities, student_id) == DictGet(abilities, student_id, 0)

\* Fisher information of an item at ability, in hundredths; a zero
\* denominator gives NaN in the code, which compares greater than nothing,
\* as 0 does here.
information(ability, params) ==
  LET prob == probability_correct_3pl(ability, params.difficulty,
                  params.discrimination, params.guessing)
      q == Unit - prob
      num == (params.discrimination * params.discrimination) * q
               * ((prob - params.guessing) * (prob - params.guessing))
      den == prob * ((Unit - params.guessing) * (Unit - params.guessing))
  IN IF den = 0 THEN 0 ELSE (num * Unit) \div den

\* The loop of select_next_item over available[i..]: best_item and
\* best_info are replaced only by a strictly greater information.
RECURSIVE select_loop(_, _, _, _, _, _)
select_loop(ability, available, catalog, i, best_item, best_info) ==
  IF i > Len(available) THEN best_item
  ELSE LET info == information(ability, get_item_parameters(catalog, available[i]))
       IN IF info > best_info
          THEN select_loop(ability, available, catalog, i + 1, available[i], info)
          ELSE select_loop(ability, available, catalog, i + 1, best_item, best_info)

\* select_next_item falling back on the last available item.
select_next_item_last(abilities, catalog, student_id, available) ==
  LET ability == get_student_ability(abilities, student_id)
      best_item == select_loop(ability, available, catalog, 1, None, 0)
  IN IF best_item # None THEN best_item ELSE available[Len(available)]

\* select_next_item(student_id, available_items)
select_next_item(abilities, catalog, student_id, available) ==
  LET ability == get_student_ability(abilities, student_id)
      best_item == select_loop(ability, available, catalog, 1, None, 0)
  IN IF best_item # None THEN best_item ELSE available[1]

\* ------------------------------------------------------ the CAT instance
\* State of the program: the registry of CAT instances of the router
\* (test_id -> instance; an instance holds its item_bank and its
\* test_sessions dict), the two dicts of the shared ItemResponseTheory
\* object irt_model, and the reply to the last call.  status is a history
\* variable: the life cycle of each test_id in the words of the
\* specification (the code keeps no status field).  requests counts the
\* start and submit requests made so far.
VARIABLES cat_instances, student_abilities, item_parameters, status, reply, requests

vars == <<cat_instances, student_abilities, item_parameters, status, reply, requests>>

\* 1.0 / np.sqrt(num_items + 1)
inv_sqrt_next(num_items) == num_items + 1

\* 1.0 / np.sqrt(num_items), as the k with se = 1/sqrt(k).
inv_sqrt(num_items) == num_items

\* se <= target_se, for the se 1/sqrt(k) and a target in hundredths.
se_le(k, target_se) == target_se > 0 /\ Unit * Unit <= target_se * target_se * k

\* The router builds its sessions with ComputerizedAdaptiveTesting(item_bank,
\* irt_model) and start_test, and keeps them in cat_instances; the source
\* defines neither name.  The methods the router calls on an instance
\* (get_next_item, submit_response, should_terminate, get_test_results) are
\* those of SSCAdaptiveTesting, which read self.item_bank, self.irt and
\* self.test_sessions.  The constructor, start_test and the initially empty
\* registry follow the design document (section 4.5).

\* ComputerizedAdaptiveTesting(item_bank, irt_model): the instance keeps the
\* bank and an empty session dict; its irt is the shared irt_model.
NewInstance(item_bank) == [item_bank |-> item_bank, test_sessions |-> EmptyDict]

\* start_test(student_id, test_id) of an instance: the instance with the new
\* session, or the error raised.
start_test(cat, student_id, test_id) ==
  IF test_id \in DOMAIN cat.test_sessions
  THEN [error |-> "DuplicateSessionError", cat |-> cat]
  ELSE [error |-> None,
        cat |-> [cat EXCEPT !.test_sessions = DictSet(@, test_id,
                  [student_id |-> student_id,
                   items_administered |-> <<>>,
                   responses |-> <<>>,
                   current_ability |-> 0,
                   se_ability |-> 1,
                   num_items |-> 0])]]

\* available_items without the `if item not in administered` filter.
available_items_unfiltered(item_bank, session) == item_bank

\* The list `available` of get_next_item: the bank's items, in bank order,
\* that are not in set(session["items_administered"]).
available_items(item_bank, session) ==
  LET administered == SetOf(session.items_administered)
      keep(item) == item \notin administered
  IN SelectSeq(item_bank, keep)

\* get_next_item(test_id) of an instance: the item returned, and the
\* catalog after the lazy get_item_parameters calls of the selection.
get_next_item(cat, abilities, catalog, test_id) ==
  IF test_id \notin DOMAIN cat.test_sessions
  THEN [result |-> None, catalog |-> catalog]
  ELSE LET session == cat.test_sessions[test_id]
           available == available_items(cat.item_bank, session)
       IN IF available = <<>>
          THEN [result |-> None, catalog |-> catalog]
          ELSE [result |-> select_next_item(abilities, catalog, session.student_id, available),
                catalog |-> touch_items(catalog, SetOf(available))]

\* record_response without the `num_items += 1`.
record_response_uncounted(session, item_id, is_correct) ==
  [session EXCEPT !.items_administered = Append(@, item_id),
                  !.responses = Append(@, <<item_id, is_correct>>)]

\* The session after the "Record response" lines of submit_response.
record_response(session, item_id, is_correct) ==
  [session EXCEPT !.items_administered = Append(@, item_id),
                  !.responses = Append(@, <<item_id, is_correct>>),
                  !.num_items = @ + 1]

\* update_student_ability(student_id, responses): the new ability, and the
\* student abilities with it stored under the student's id.
update_student_ability(abilities, catalog, student_id, responses) ==
  LET current_ability == get_student_ability(abilities, student_id)
      new_ability == estimate_ability(responses, current_ability, catalog)
  IN [new_ability |-> new_ability,
      abilities |-> DictSet(abilities, student_id, new_ability)]

\* submit_response(test_id, item_id, is_correct) of an instance: the
\* instance, the student abilities and the catalog after the call, and the
\* dict returned.
submit_response(cat, abilities, catalog, test_id, item_id, is_correct) ==
  IF test_id \notin DOMAIN cat.test_sessions
  THEN [cat |-> cat, abilities |-> abilities, catalog |-> catalog,
        result |-> [error |-> "Test session not found"]]
  ELSE LET recorded == record_response(cat.test_sessions[test_id], item_id, is_correct)
           student_id == recorded.student_id
           updated == update_student_ability(abilities, catalog, student_id,
                                             recorded.responses)
           new_ability == updated.new_ability
           se == inv_sqrt(recorded.num_items)
           session == [recorded EXCEPT !.current_ability = new_ability,
                                       !.se_ability = se]
       IN [cat |-> [cat EXCEPT !.test_sessions = DictSet(@, test_id, session)],
           abilities |-> updated.abilities,
           catalog |-> touch_items(catalog, SetOf(recorded.items_administered)),
           result |-> [ability_estimate |-> new_ability,
                       standard_error |-> se,
                       num_items |-> session.num_items,
                       confidence_interval |-> [center |-> new_ability, se |-> se]]]

\* should_terminate without the "Precision reached" test.
should_terminate_no_precision(cat, test_id, min_items, max_items, target_se) ==
  IF test_id \notin DOMAIN cat.test_sessions THEN TRUE
  ELSE LET num_items == cat.test_sessions[test_id].num_items
       IN IF num_items < min_items THEN FALSE
          ELSE IF num_items >= max_items THEN TRUE
          ELSE FALSE

\* should_terminate without the "Maximum items reached" test.
should_terminate_no_max(cat, test_id, min_items, max_items, target_se) ==
  IF test_id \notin DOMAIN cat.test_sessions THEN TRUE
  ELSE LET session == cat.test_sessions[test_id]
       IN IF session.num_items < min_items THEN FALSE
          ELSE IF se_le(session.se_ability, target_se) THEN TRUE
          ELSE FALSE

\* should_terminate(test_id, min_items, max_items, target_se) of an instance.
\* should_terminate stopping as soon as min_items is reached.
should_terminate_min_only(cat, test_id, min_items, max_items, target_se) ==
  IF test_id \notin DOMAIN cat.test_sessions THEN TRUE
  ELSE cat.test_sessions[test_id].num_items >= min_items

\* should_terminate stopping at max_items exactly, not beyond it.
should_terminate_exact_max(cat, test_id, min_items, max_items, target_se) ==
  IF test_id \notin DOMAIN cat.test_sessions THEN TRUE
  ELSE LET session == cat.test_sessions[test_id]
           num_items == session.num_items
       IN IF num_items < min_items THEN FALSE
          ELSE IF num_items = max_items THEN TRUE
          ELSE IF se_le(session.se_ability, target_se) THEN TRUE
          ELSE FALSE

should_terminate(cat, test_id, min_items, max_items, target_se) ==
  IF test_id \notin DOMAIN cat.test_sessions THEN TRUE
  ELSE LET session == cat.test_sessions[test_id]
           num_items == session.num_items
       IN IF num_items < min_items THEN FALSE
          ELSE IF num_items >= max_items THEN TRUE
          ELSE IF se_le(session.se_ability, target_se) THEN TRUE
          ELSE FALSE

\* The defaults of should_terminate's parameters.
default_min_items == 10
default_max_items == 50
default_target_se == 30

\* round(norm.cdf(ability) * 100, 2), in hundredths of a percent.
ability_to_percentile(ability) ==
  LET upper(y) == CASE y = 0 -> 5000 [] y = 1 -> 8413 [] y = 2 -> 9772
                    [] y = 3 -> 9987 [] OTHER -> 10000
  IN IF ability >= 0 THEN upper(ability) ELSE 10000 - upper(-ability)

\* get_test_results reporting the size of the bank as the number of items.
get_test_results_bank_size(cat, test_id) ==
  IF test_id \notin DOMAIN cat.test_sessions
  THEN [error |-> "Test session not found"]
  ELSE LET session == cat.test_sessions[test_id]
       IN [student_id |-> session.student_id,
           ability_estimate |-> session.current_ability,
           standard_error |-> session.se_ability,
           num_items_administered |-> Len(cat.item_bank),
           responses |-> session.responses,
           score_percentile |-> ability_to_percentile(session.current_ability)]

\* get_test_results(test_id) of an instance.
get_test_results(cat, test_id) ==
  IF test_id \notin DOMAIN cat.test_sessions
  THEN [error |-> "Test session not found"]
  ELSE LET session == cat.test_sessions[test_id]
       IN [student_id |-> session.student_id,
           ability_estimate |-> session.current_ability,
           standard_error |-> session.se_ability,
           num_items_administered |-> session.num_items,
           responses |-> session.responses,
           score_percentile |-> ability_to_percentile(session.current_ability)]

\* ------------------------------------------------------------ the calls
\* Catalogs the program may hold when the first test starts: nothing set,
\* or two items set through /irt/set-item-parameters.  The first of the two
\* is easy and sharp: the likelihood of a correct answer to it is flat, to
\* the precision of the estimator, over the upper abilities.
InitialCatalogs ==
  {EmptyDict,
   ("i1" :> [difficulty |-> -2, discrimination |-> 2, guessing |-> 0])
     @@ ("i2" :> [difficulty |-> -1, discrimination |-> 2, guessing |-> 0])}

\* The parameters <<min_items, max_items, target_se>> a direct
\* should_terminate call is given.
TerminationInputs == {<<2, 1, 30>>, <<0, 3, 80>>}

Init ==
  /\ cat_instances = EmptyDict
  /\ student_abilities = EmptyDict
  /\ item_parameters \in InitialCatalogs
  /\ status = [t \in TestIds |-> "NotStarted"]
  /\ reply = [op |-> "none"]
  /\ requests = [start |-> 0, submit |-> 0]

\* POST /cat/start-test: a new instance over the request's bank, start_test
\* on it, and the instance stored under the test_id; any exception is
\* answered 500.
StartAdaptiveTest(student_id, test_id, item_bank) ==
  LET started == start_test(NewInstance(item_bank), student_id, test_id)
  IN /\ requests.start < MaxStarts
     /\ requests' = [requests EXCEPT !.start = @ + 1]
     /\ IF started.error # None
        THEN /\ reply' = [op |-> "start_test", test_id |-> test_id,
                          student_id |-> student_id, http |-> 500,
                          error |-> started.error, result |-> None]
             /\ UNCHANGED <<cat_instances, student_abilities, item_parameters, status>>
        ELSE /\ cat_instances' = DictSet(cat_instances, test_id, started.cat)
             /\ status' = [status EXCEPT ![test_id] = "InProgress"]
             /\ reply' = [op |-> "start_test", test_id |-> test_id,
                          student_id |-> student_id, http |-> 200,
                          error |-> None, result |-> "test_started"]
             /\ UNCHANGED <<student_abilities, item_parameters>>

\* GET /cat/next-item/{test_id}.  The HTTPException(404) of a missing
\* test_id is raised inside the try block, whose `except Exception` answers
\* it 500.  A reply names the exception the handler caught in `error`.
GetNextItem(test_id) ==
  /\ UNCHANGED requests
  /\ IF test_id \notin DOMAIN cat_instances
     THEN /\ reply' = [op |-> "get_next_item", test_id |-> test_id, http |-> 500,
                       error |-> "HTTPException", result |-> None]
          /\ UNCHANGED <<cat_instances, student_abilities, item_parameters, status>>
     ELSE LET got == get_next_item(cat_instances[test_id], student_abilities,
                                   item_parameters, test_id)
          IN /\ item_parameters' = got.catalog
             /\ reply' = [op |-> "get_next_item", test_id |-> test_id, http |-> 200,
                          error |-> None, result |-> got.result]
             /\ UNCHANGED <<cat_instances, student_abilities, status>>

\* POST /cat/submit-response: submit_response, then should_terminate with
\* its default parameters.
SubmitResponse(test_id, item_id, is_correct) ==
  /\ requests.submit < MaxSubmits
  /\ requests' = [requests EXCEPT !.submit = @ + 1]
  /\ IF test_id \notin DOMAIN cat_instances
     THEN /\ reply' = [op |-> "submit_response", test_id |-> test_id,
                       item_id |-> item_id, is_correct |-> is_correct,
                       http |-> 500, error |-> "HTTPException", result |-> None]
          /\ UNCHANGED <<cat_instances, student_abilities, item_parameters, status>>
     ELSE LET done == submit_response(cat_instances[test_id], student_abilities,
                                      item_parameters, test_id, item_id, is_correct)
          IN /\ cat_instances' = DictSet(cat_instances, test_id, done.cat)
             /\ student_abilities' = done.abilities
             /\ item_parameters' = done.catalog
             /\ reply' = [op |-> "submit_response", test_id |-> test_id,
                          item_id |-> item_id, is_correct |-> is_correct,
                          http |-> 200, error |-> None, result |-> done.result,
                          should_terminate |->
                            should_terminate(done.cat, test_id, default_min_items,
                                             default_max_items, default_target_se)]
             /\ UNCHANGED status

\* GET /cat/results/{test_id}: the results, and the instance deleted from
\* the registry.
GetTestResults(test_id) ==
  /\ UNCHANGED requests
  /\ IF test_id \notin DOMAIN cat_instances
     THEN /\ reply' = [op |-> "get_test_results", test_id |-> test_id, http |-> 500,
                       error |-> "HTTPException", result |-> None]
          /\ UNCHANGED <<cat_instances, student_abilities, item_parameters, status>>
     ELSE /\ reply' = [op |-> "get_test_results", test_id |-> test_id, http |-> 200,
                       error |-> None,
                       result |-> get_test_results(cat_instances[test_id], test_id)]
          /\ cat_instances' = DictDel(cat_instances, test_id)
          /\ status' = [status EXCEPT ![test_id] = "Terminated"]
          /\ UNCHANGED <<student_abilities, item_parameters>>

\* should_terminate(test_id, min_items, max_items, target_se) called on the
\* instance registered under `instance`.
ShouldTerminate(instance, test_id, min_items, max_items, target_se) ==
  /\ instance \in DOMAIN cat_instances
  /\ UNCHANGED requests
  /\ reply' = [op |-> "should_terminate", instance |-> instance,
               test_id |-> test_id, min_items |-> min_items,
               max_items |-> max_items, target_se |-> target_se,
               error |-> None,
               result |-> should_terminate(cat_instances[instance], test_id,
                                           min_items, max_items, target_se)]
  /\ UNCHANGED <<cat_instances, student_abilities, item_parameters, status>>

Next ==
  \/ \E r \in StartInputs : StartAdaptiveTest(r[1], r[2], r[3])
  \/ \E t \in TestIds : GetNextItem(t)
  \/ \E t \in TestIds, r \in SubmitInputs : SubmitResponse(t, r[1], r[2])
  \/ \E t \in TestIds : GetTestResults(t)
  \/ \E t \in TestIds, p \in TerminationInputs : ShouldTerminate(t, t, p[1], p[2], p[3])

Spec == Init /\ [][Next]_vars

\* ----------------------------------------------------------- properties
\* The session a registered test_id runs.
Session(test_id) == cat_instances[test_id].test_sessions[test_id]

\* item_bank - administered of a registered test_id.
Candidates(test_id) ==
  SetOf(cat_instances[test_id].item_bank) \ SetOf(Session(test_id).items_administered)

\* The step is a submit request for test_id and item_id.
IsSubmitStep(test_id, item_id) ==
  /\ requests'.submit = requests.submit + 1
  /\ reply'.op = "submit_response"
  /\ reply'.test_id = test_id
  /\ reply'.item_id = item_id

\* The step is a start request for test_id.
IsStartStep(test_id) ==
  /\ requests'.start = requests.start + 1
  /\ reply'.op = "start_test"
  /\ reply'.test_id = test_id

\* C1: in every session no item_id occurs twice in `administered`, and
\* every administered item_id is a member of the session's item_bank.
C1_AdministeredOnceFromBank ==
  \A t \in DOMAIN cat_instances :
    LET administered == Session(t).items_administered
    IN /\ \A i, j \in 1..Len(administered) : i # j => administered[i] # administered[j]
       /\ SetOf(administered) \subseteq SetOf(cat_instances[t].item_bank)

\* C2: a submit_response whose item_id is not in item_bank minus
\* administered fails with InvalidItemError and leaves the session
\* (administered, responses, item_count, theta, se) unchanged.
C2_InvalidItemRejected ==
  [][\A t \in DOMAIN cat_instances : \A i \in Items :
       (i \notin Candidates(t) /\ IsSubmitStep(t, i))
         => /\ reply'.error = "InvalidItemError"
            /\ t \in DOMAIN cat_instances'
            /\ cat_instances'[t] = cat_instances[t]]_vars

\* C3: in every session `administered` and `responses` have the same
\* length, the i-th response carries the i-th administered item_id, and
\* item_count equals that length.
C3_HistoryAligned ==
  \A t \in DOMAIN cat_instances :
    \A u \in DOMAIN cat_instances[t].test_sessions :
      LET session == cat_instances[t].test_sessions[u]
      IN /\ Len(session.items_administered) = Len(session.responses)
         /\ \A i \in 1..Len(session.responses) :
              session.responses[i][1] = session.items_administered[i]
         /\ session.num_items = Len(session.responses)

\* A session holds two responses.
C3_Witness ==
  \E t \in DOMAIN cat_instances : Len(Session(t).responses) = 2

\* C4: the status of a test_id only moves forward: once InProgress it is
\* never NotStarted again, once Terminated it is never InProgress again.
C4_StatusMonotone ==
  [][\A t \in TestIds :
       /\ status[t] = "InProgress" => status'[t] # "NotStarted"
       /\ status[t] = "Terminated" => status'[t] # "InProgress"]_vars

\* C5: a start request for a test_id that is in the registry fails with
\* DuplicateSessionError and leaves the registered session and its bank
\* unchanged.
C5_DuplicateStartRejected ==
  [][\A t \in DOMAIN cat_instances :
       IsStartStep(t)
         => /\ reply'.error = "DuplicateSessionError"
            /\ t \in DOMAIN cat_instances'
            /\ cat_instances'[t] = cat_instances[t]]_vars

\* C6: a submit_response on session A leaves, for every other session B
\* of the same student, B's session state unchanged, and also the ability
\* B's next get_next_item selects at and B's next submit_response starts
\* the estimator from (get_student_ability of B's student).
C6_AbilityScopedToSession ==
  [][\A a \in DOMAIN cat_instances : \A i \in Items :
       IsSubmitStep(a, i)
         => \A b \in (DOMAIN cat_instances) \ {a} :
              Session(b).student_id = Session(a).student_id
                => /\ b \in DOMAIN cat_instances'
                   /\ cat_instances'[b] = cat_instances[b]
                   /\ get_student_ability(student_abilities', Session(b).student_id)
                        = get_student_ability(student_abilities, Session(b).student_id)]_vars

\* C7: after a successful start the session is InProgress with empty
\* administered and responses, item_count 0, se 1.0 and theta 0: the theta
\* recorded in the session and the theta the session's selection and
\* estimation work with (get_student_ability of its student).
C7_StartState ==
  (reply.op = "start_test" /\ reply.http = 200)
    => /\ reply.test_id \in DOMAIN cat_instances
       /\ status[reply.test_id] = "InProgress"
       /\ Session(reply.test_id).items_administered = <<>>
       /\ Session(reply.test_id).responses = <<>>
       /\ Session(reply.test_id).num_items = 0
       /\ Session(reply.test_id).se_ability = 1
       /\ Session(reply.test_id).current_ability = 0
       /\ get_student_ability(student_abilities, Session(reply.test_id).student_id) = 0

\* C8: get_next_item on a registered session returns an item of
\* item_bank minus administered whenever that set is not empty, and None
\* exactly when it is empty.
C8_NextItemIsCandidate ==
  (reply.op = "get_next_item" /\ reply.http = 200)
    => /\ (reply.result = None) <=> (Candidates(reply.test_id) = {})
       /\ Candidates(reply.test_id) # {} => reply.result \in Candidates(reply.test_id)

\* get_next_item has returned an item for a session with an administered
\* item of its bank.
C8_Witness ==
  /\ reply.op = "get_next_item"
  /\ reply.http = 200
  /\ reply.result # None
  /\ \E i \in 1..Len(Session(reply.test_id).items_administered) :
       Session(reply.test_id).items_administered[i]
         \in SetOf(cat_instances[reply.test_id].item_bank)

\* The reply is should_terminate's answer for an existing session.
TerminationAnswered ==
  /\ reply.op = "should_terminate"
  /\ reply.test_id \in DOMAIN cat_instances[reply.instance].test_sessions

\* The session should_terminate was asked about.
AskedSession == cat_instances[reply.instance].test_sessions[reply.test_id]

\* se <= target_se for the session asked about: se = 1/sqrt(k).
PrecisionReached ==
  /\ reply.target_se > 0
  /\ reply.target_se * reply.target_se * AskedSession.se_ability >= Unit * Unit

\* C9: should_terminate on an existing session is false when
\* item_count < min_items; otherwise true when item_count >= max_items;
\* otherwise true when se <= target_se; otherwise false.
C9_TerminationDecision ==
  TerminationAnswered
    => LET n == AskedSession.num_items
       IN /\ n < reply.min_items => reply.result = FALSE
          /\ (n >= reply.min_items /\ n >= reply.max_items) => reply.result = TRUE
          /\ (n >= reply.min_items /\ n < reply.max_items /\ PrecisionReached)
               => reply.result = TRUE
          /\ (n >= reply.min_items /\ n < reply.max_items /\ ~PrecisionReached)
               => reply.result = FALSE

\* should_terminate has answered true below max_items, on the precision.
C9_Witness ==
  /\ TerminationAnswered
  /\ AskedSession.num_items >= reply.min_items
  /\ AskedSession.num_items < reply.max_items
  /\ PrecisionReached
  /\ reply.result = TRUE

\* C10 as stated: should_terminate is true whenever
\* item_count >= max_items, for every min_items, max_items and target_se.
C10_MaxItemsAlwaysStops ==
  (TerminationAnswered /\ AskedSession.num_items >= reply.max_items)
    => reply.result = TRUE

\* C10 as amended: should_terminate is true whenever item_count >= max_items
\* and item_count >= min_items, whatever the value of se.
C10_MaxItemsStopsFromMinItems ==
  (/\ TerminationAnswered
   /\ AskedSession.num_items >= reply.max_items
   /\ AskedSession.num_items >= reply.min_items)
    => reply.result = TRUE

\* should_terminate has answered true at max_items with se above target_se.
C10_Witness ==
  /\ TerminationAnswered
  /\ AskedSession.num_items >= reply.max_items
  /\ AskedSession.num_items >= reply.min_items
  /\ ~PrecisionReached
  /\ reply.result = TRUE

\* ------------------------------------------- the methods called directly
\* The methods of a CAT instance as a caller holding the instance uses
\* them, without the router's registry lookup in front: the instance
\* registered under `instance` is asked about any test_id.  A method that
\* returns gives error None; none of the four raises for a test_id it has
\* no session for.

\* The parameters <<min_items, max_items, target_se>> of the direct calls:
\* a test over a bank of two items that stops at two.
DirectTerminationInputs == {<<1, 2, 30>>}

\* The responses <<item_id, is_correct>> of the direct calls.
DirectSubmitInputs == {<<"i1", TRUE>>, <<"i2", FALSE>>}

\* cat.get_next_item(test_id)
DirectGetNextItem(instance, test_id) ==
  /\ instance \in DOMAIN cat_instances
  /\ LET got == get_next_item(cat_instances[instance], student_abilities,
                              item_parameters, test_id)
     IN /\ item_parameters' = got.catalog
        /\ reply' = [op |-> "cat.get_next_item", instance |-> instance,
                     test_id |-> test_id, error |-> None, result |-> got.result]
  /\ UNCHANGED <<cat_instances, student_abilities, status, requests>>

\* cat.submit_response(test_id, item_id, is_correct)
DirectSubmitResponse(instance, test_id, item_id, is_correct) ==
  /\ instance \in DOMAIN cat_instances
  /\ requests.submit < MaxSubmits
  /\ requests' = [requests EXCEPT !.submit = @ + 1]
  /\ LET done == submit_response(cat_instances[instance], student_abilities,
                                 item_parameters, test_id, item_id, is_correct)
     IN /\ cat_instances' = DictSet(cat_instances, instance, done.cat)
        /\ student_abilities' = done.abilities
        /\ item_parameters' = done.catalog
        /\ reply' = [op |-> "cat.submit_response", instance |-> instance,
                     test_id |-> test_id, item_id |-> item_id,
                     is_correct |-> is_correct, error |-> None,
                     result |-> done.result]
  /\ UNCHANGED status

\* cat.get_test_results(test_id); finalizing a session it holds ends the
\* test in the words of the specification.
DirectGetTestResults(instance, test_id) ==
  /\ instance \in DOMAIN cat_instances
  /\ reply' = [op |-> "cat.get_test_results", instance |-> instance,
               test_id |-> test_id, error |-> None,
               result |-> get_test_results(cat_instances[instance], test_id)]
  /\ status' = IF test_id \in DOMAIN cat_instances[instance].test_sessions
               THEN [status EXCEPT ![test_id] = "Terminated"]
               ELSE status
  /\ UNCHANGED <<cat_instances, student_abilities, item_parameters, requests>>

DirectNext ==
  \/ \E r \in StartInputs : StartAdaptiveTest(r[1], r[2], r[3])
  \/ \E c \in TestIds, t \in TestIds : DirectGetNextItem(c, t)
  \/ \E c \in TestIds, t \in TestIds, r \in DirectSubmitInputs :
       DirectSubmitResponse(c, t, r[1], r[2])
  \/ \E c \in TestIds, t \in TestIds, p \in DirectTerminationInputs :
       ShouldTerminate(c, t, p[1], p[2], p[3])
  \/ \E c \in TestIds, t \in TestIds : DirectGetTestResults(c, t)

\* The direct calls are made on a program that starts with no item set.
DirectInit == Init /\ item_parameters = EmptyDict

DirectSpec == DirectInit /\ [][DirectNext]_vars

\* The reply is that of a method called directly on an instance.
IsDirectReply ==
  reply.op \in {"cat.get_next_item", "cat.submit_response",
                "should_terminate", "cat.get_test_results"}

\* The instance asked had no session for the test_id it was asked about.
AskedMissingSession ==
  /\ IsDirectReply
  /\ reply.test_id \notin DOMAIN cat_instances[reply.instance].test_sessions

\* C11: get_next_item, submit_response, should_terminate and
\* get_test_results called with a test_id the instance has no session for
\* each fail with SessionNotFoundError; none of them returns a value.
C11_MissingSessionFails ==
  AskedMissingSession => reply.error = "SessionNotFoundError"

\* The step is a direct get_next_item, submit_response or get_test_results
\* call for test_id on the instance that holds its session.
IsSessionCallStep(test_id) ==
  /\ reply'.op \in {"cat.get_next_item", "cat.submit_response",
                    "cat.get_test_results"}
  /\ reply'.instance = test_id
  /\ reply'.test_id = test_id

\* C12: once get_test_results has been called on a session it is
\* Terminated and never touched again: every later get_next_item,
\* submit_response or get_test_results on that test_id fails with
\* SessionTerminatedError and changes no session state.
C12_TerminatedIsFinal ==
  [][\A t \in TestIds :
       (status[t] = "Terminated" /\ IsSessionCallStep(t))
         => /\ reply'.error = "SessionTerminatedError"
            /\ cat_instances' = cat_instances
            /\ student_abilities' = student_abilities]_vars

\* The /cat handlers are coroutines without a single await: the event loop
\* runs each of them to completion before it starts the next, so concurrent
\* requests are served one whole handler after the other, in any order.
\* The interleavings of concurrent requests are the behaviours of Spec.

\* The step is a results request for test_id.
IsResultsStep(test_id) ==
  /\ reply'.op = "get_test_results"
  /\ reply'.test_id = test_id

\* C13: the registry is atomic under every interleaving of start and
\* results requests: of two start requests with the same test_id exactly
\* one creates the session (the one that finds it registered does not
\* succeed), of two results requests for the same test_id exactly one
\* returns the results, and a test_id maps to one live session at most.
C13_RegistryAtomic ==
  [][\A t \in TestIds :
       /\ IsStartStep(t)
            => IF t \in DOMAIN cat_instances
               THEN reply'.http # 200
               ELSE reply'.http = 200 /\ t \in DOMAIN cat_instances'
       /\ IsResultsStep(t)
            => IF t \in DOMAIN cat_instances
               THEN reply'.http = 200 /\ t \notin DOMAIN cat_instances'
               ELSE reply'.http # 200
       /\ t \in DOMAIN cat_instances'
            => DOMAIN cat_instances'[t].test_sessions = {t}]_vars

\* ------------------------------------------------- the selector by itself
\* select_next_item called on the shared ItemResponseTheory object, over
\* catalogs built through /irt/set-item-parameters and abilities left by
\* earlier estimations.

\* The parameter triples a set-item-parameters request carries: an item far
\* too hard (the probability sits on the guessing floor), a guessing value
\* outside [0, 1), and an ordinary item.
ParameterInputs ==
  {[difficulty |-> 1000, discrimination |-> 1, guessing |-> 25],
   [difficulty |-> 0, discrimination |-> 1, guessing |-> 150],
   [difficulty |-> 1, discrimination |-> 2, guessing |-> 0]}

\* The sequences of available items handed to select_next_item: every
\* sequence of distinct items, the empty one included.
AvailableInputs ==
  {a \in UNION {[1..n -> Items] : n \in 0..Cardinality(Items)} :
     \A i \in DOMAIN a, j \in DOMAIN a : a[i] = a[j] => i = j}

\* The abilities on record when the selector is called.
SelectInit ==
  /\ cat_instances = EmptyDict
  /\ student_abilities \in
       {EmptyDict} \cup {("s1" :> theta) : theta \in -ThetaMax..ThetaMax}
  /\ item_parameters = EmptyDict
  /\ status = [t \in TestIds |-> "NotStarted"]
  /\ reply = [op |-> "none"]
  /\ requests = [start |-> 0, submit |-> 0]

\* set_item_parameters(item_id, difficulty, discrimination, guessing): the
\* entry is stored as given.
set_item_parameters(catalog, item_id, params) == DictSet(catalog, item_id, params)

\* POST /irt/set-item-parameters
SetItemParameters(item_id, params) ==
  /\ item_parameters' = set_item_parameters(item_parameters, item_id, params)
  /\ reply' = [op |-> "set_item_parameters", item_id |-> item_id, http |-> 200,
               error |-> None, result |-> "parameters_set",
               parameters |-> params]
  /\ UNCHANGED <<cat_instances, student_abilities, status, requests>>

\* irt.select_next_item(student_id, available_items).  The loop looks every
\* available item up in the catalog; with nothing available the closing
\* available_items[0] raises IndexError.
SelectNextItem(student_id, available) ==
  /\ item_parameters' = touch_items(item_parameters, SetOf(available))
  /\ reply' = IF available = <<>>
              THEN [op |-> "select_next_item", student_id |-> student_id,
                    available |-> available, error |-> "IndexError",
                    result |-> None]
              ELSE [op |-> "select_next_item", student_id |-> student_id,
                    available |-> available, error |-> None,
                    result |-> select_next_item(student_abilities, item_parameters,
                                                student_id, available)]
  /\ UNCHANGED <<cat_instances, student_abilities, status, requests>>

SelectNext ==
  \/ \E i \in Items, p \in ParameterInputs : SetItemParameters(i, p)
  \/ \E s \in Students, a \in AvailableInputs : SelectNextItem(s, a)

SelectSpec == SelectInit /\ [][SelectNext]_vars

\* The reply is that of a select_next_item call over some items.
Selected == reply.op = "select_next_item" /\ reply.available # <<>>

\* The Fisher information, at the ability the selection was made at, of
\* the k-th item it was made from.
InfoOfAvailable(k) ==
  information(get_student_ability(student_abilities, reply.student_id),
              get_item_parameters(item_parameters, reply.available[k]))

\* C14: select_next_item over a non-empty sequence returns one of its
\* members, one whose Fisher information at the current ability no other
\* member exceeds, and the first such member in the order of the sequence.
C14_SelectsFirstMaximum ==
  Selected =>
    \E k \in DOMAIN reply.available :
      /\ reply.result = reply.available[k]
      /\ \A j \in DOMAIN reply.available : InfoOfAvailable(j) <= InfoOfAvailable(k)
      /\ \A j \in 1..(k - 1) : InfoOfAvailable(j) < InfoOfAvailable(k)

\* C15: select_next_item with nothing available fails with
\* NoItemsAvailableError.
C15_EmptyRaisesNoItemsAvailable ==
  (reply.op = "select_next_item" /\ reply.available = <<>>)
    => reply.error = "NoItemsAvailableError"

\* Every item the selection was made from has information exactly zero.
AllInformationZero ==
  \A j \in DOMAIN reply.available : InfoOfAvailable(j) = 0

\* C16: when the Fisher information of every available item is exactly
\* zero, select_next_item returns the first of them.
C16_AllZeroSelectsFirst ==
  (Selected /\ AllInformationZero) => reply.result = reply.available[1]

\* A selection among several items whose probability sits on the guessing
\* floor, so that each has information zero, answered with the first.
C16_Witness ==
  /\ Selected
  /\ Len(reply.available) >= 2
  /\ AllInformationZero
  /\ \A j \in DOMAIN reply.available :
       LET params == get_item_parameters(item_parameters, reply.available[j])
       IN probability_correct_3pl(
            get_student_ability(student_abilities, reply.student_id),
            params.difficulty, params.discrimination, params.guessing)
          = params.guessing
  /\ reply.result = reply.available[1]

\* s is a prefix of t.
IsPrefix(s, t) == Len(s) <= Len(t) /\ SubSeq(t, 1, Len(s)) = s

\* C17: the response history of a test is append-only: an accepted
\* submit_response extends it by exactly one record at its end, and no step
\* removes, reorders or changes a record (the history before a step is a
\* prefix of the history after it).
C17_HistoryAppendOnly ==
  [][\A t \in DOMAIN cat_instances :
       /\ t \in DOMAIN cat_instances'
            => IsPrefix(Session(t).responses, Session(t)'.responses)
       /\ \A i \in Items :
            (IsSubmitStep(t, i) /\ reply'.http = 200)
              => /\ Len(Session(t)'.responses) = Len(Session(t).responses) + 1
                 /\ Session(t)'.responses[Len(Session(t)'.responses)]
                      = <<i, reply'.is_correct>>]_vars

\* The step is a submit request for test_id that was accepted.
IsAcceptedSubmitStep(test_id) ==
  /\ requests'.submit = requests.submit + 1
  /\ reply'.op = "submit_response"
  /\ reply'.test_id = test_id
  /\ reply'.http = 200

\* C18 as stated: after each accepted submit_response se is
\* 1/sqrt(item_count), and se is strictly smaller than before the response
\* (se = 1/sqrt(k) is smaller exactly when k is greater).
C18_SeStrictlyDecreases ==
  [][\A t \in DOMAIN cat_instances :
       IsAcceptedSubmitStep(t)
         => /\ Session(t)'.se_ability = Session(t)'.num_items
            /\ Session(t)'.se_ability > Session(t).se_ability]_vars

\* C18: after each accepted submit_response se is 1/sqrt(item_count); the
\* first response of a session leaves se at its starting value 1.0, and
\* every later response makes it strictly smaller.
C18_SeDecreasesAfterFirst ==
  [][\A t \in DOMAIN cat_instances :
       IsAcceptedSubmitStep(t)
         => /\ Session(t)'.se_ability = Session(t)'.num_items
            /\ IF Session(t).num_items = 0
               THEN Session(t)'.se_ability = Session(t).se_ability
               ELSE Session(t)'.se_ability > Session(t).se_ability]_vars

\* A session whose second response has been accepted: se = 1/sqrt(2).
C18_Witness ==
  /\ reply.op = "submit_response"
  /\ reply.http = 200
  /\ reply.test_id \in DOMAIN cat_instances
  /\ Session(reply.test_id).num_items = 2
  /\ Session(reply.test_id).se_ability = 2
  /\ reply.result.standard_error = 2

\* C19: after each accepted submit_response the ability of the session is
\* the estimate for its complete response history, the new response last,
\* computed from the session's own previous ability as the starting value.
C19_WarmStartFromSession ==
  [][\A t \in DOMAIN cat_instances :
       IsAcceptedSubmitStep(t)
         => /\ Session(t)'.responses
                 = Append(Session(t).responses, <<reply'.item_id, reply'.is_correct>>)
            /\ Session(t)'.current_ability
                 = estimate_ability(Session(t)'.responses,
                                    Session(t).current_ability, item_parameters')]_vars

\* The instance a direct call was made on, and whether it holds the session
\* asked about.
AskedInstance == cat_instances[reply.instance]

AskedHeldSession ==
  /\ IsDirectReply
  /\ reply.test_id \in DOMAIN AskedInstance.test_sessions

\* C20: get_test_results returns the ability, se, num_items and responses
\* of the session, num_items being the number of accepted responses; and
\* over a bank of N items, with min_items <= N and max_items = N,
\* should_terminate is true once N responses have been accepted (and
\* get_test_results then reports N items).
C20_ResultsReportSession ==
  AskedHeldSession =>
    LET session == AskedInstance.test_sessions[reply.test_id]
        N == Len(AskedInstance.item_bank)
    IN /\ reply.op = "cat.get_test_results"
            => /\ reply.result.ability_estimate = session.current_ability
               /\ reply.result.standard_error = session.se_ability
               /\ reply.result.num_items_administered = session.num_items
               /\ reply.result.responses = session.responses
               /\ reply.result.num_items_administered = Len(session.responses)
       /\ (/\ reply.op = "should_terminate"
           /\ reply.min_items <= N
           /\ reply.max_items = N
           /\ Len(session.responses) = N)
            => reply.result = TRUE

\* The results of a test over a bank of two items, read after its two
\* responses, when should_terminate with min_items 1 and max_items 2 is
\* true: two items reported.
C20_Witness ==
  /\ AskedHeldSession
  /\ reply.op = "cat.get_test_results"
  /\ Len(AskedInstance.item_bank) = 2
  /\ Len(AskedInstance.test_sessions[reply.test_id].responses) = 2
  /\ should_terminate(AskedInstance, reply.test_id, 1, 2, default_target_se)
  /\ reply.result.num_items_administered = 2

\* -------------------------------------------------- the catalog by itself
\* The catalog of the shared ItemResponseTheory object under its three
\* operations: set_item_parameters, get_item_parameters, calibrate_items.

\* The number of records of item_id in the response data, and the number
\* of them that are correct.
num_responses(records, item_id) ==
  Cardinality({k \in DOMAIN records : records[k][1] = item_id})

num_correct(records, item_id) ==
  Cardinality({k \in DOMAIN records : records[k][1] = item_id /\ records[k][2]})

\* The least k with ln(a / b) <= k, for a >= b > 0 and a / b at most 99
\* (e, e^2, ..., in thousandths).
ceil_ln(a, b) ==
  IF a = b THEN 0
  ELSE IF a * 1000 <= 2718 * b THEN 1
  ELSE IF a * 1000 <= 7389 * b THEN 2
  ELSE IF a * 1000 <= 20086 * b THEN 3
  ELSE IF a * 1000 <= 54598 * b THEN 4
  ELSE 5

\* -np.log(p_correct / (1 - p_correct)) with the sign reversed.
neg_logit_reversed(correct, total) ==
  LET p == IF correct * 100 > 99 * total THEN <<99, 100>>
           ELSE IF correct * 100 < total THEN <<1, 100>>
           ELSE <<correct, total>>
      odds == <<p[1], p[2] - p[1]>>
  IN IF odds[1] >= odds[2] THEN ceil_ln(odds[1], odds[2])
     ELSE -ceil_ln(odds[2], odds[1])

\* -np.log(p_correct / (1 - p_correct)) of the proportion correct / total
\* clamped to [0.01, 0.99], on the difficulty grid: the logit rounded away
\* from zero, so that it has the sign of the floating-point value.
neg_logit(correct, total) ==
  LET p == IF correct * 100 > 99 * total THEN <<99, 100>>
           ELSE IF correct * 100 < total THEN <<1, 100>>
           ELSE <<correct, total>>
      odds == <<p[1], p[2] - p[1]>>
  IN IF odds[1] >= odds[2] THEN -ceil_ln(odds[1], odds[2])
     ELSE ceil_ln(odds[2], odds[1])

\* calibrate_items(response_data): every item of the records is set to its
\* calibrated difficulty, discrimination 1.0 and guessing 0.25.
calibrate_items(catalog, records) ==
  LET ids == {records[k][1] : k \in DOMAIN records}
  IN [x \in (DOMAIN catalog) \cup ids |->
        IF x \in ids
        THEN [difficulty |-> neg_logit(num_correct(records, x),
                                       num_responses(records, x)),
              discrimination |-> 1, guessing |-> 25]
        ELSE catalog[x]]

\* The response data handed to calibrate_items, as <<item_id, correct>>.
CalibrationInputs ==
  {<<>>,
   <<<<"i1", TRUE>>, <<"i1", TRUE>>>>,
   <<<<"i1", TRUE>>, <<"i2", FALSE>>, <<"i1", FALSE>>, <<"i1", TRUE>>>>,
   <<<<"i2", TRUE>>, <<"i3", FALSE>>, <<"i2", TRUE>>, <<"i3", TRUE>>, <<"i2", FALSE>>>>}

CatalogInit ==
  /\ cat_instances = EmptyDict
  /\ student_abilities = EmptyDict
  /\ item_parameters = EmptyDict
  /\ status = [t \in TestIds |-> "NotStarted"]
  /\ reply = [op |-> "none"]
  /\ requests = [start |-> 0, submit |-> 0]

\* irt.get_item_parameters(item_id)
GetItemParameters(item_id) ==
  /\ item_parameters' = touch_items(item_parameters, {item_id})
  /\ reply' = [op |-> "get_item_parameters", item_id |-> item_id, error |-> None,
               result |-> get_item_parameters(item_parameters, item_id)]
  /\ UNCHANGED <<cat_instances, student_abilities, status, requests>>

\* irt.calibrate_items(response_data)
CalibrateItems(records) ==
  /\ item_parameters' = calibrate_items(item_parameters, records)
  /\ reply' = [op |-> "calibrate_items", records |-> records, error |-> None,
               result |-> None]
  /\ UNCHANGED <<cat_instances, student_abilities, status, requests>>

CatalogNext ==
  \/ \E i \in Items, p \in ParameterInputs : SetItemParameters(i, p)
  \/ \E i \in Items : GetItemParameters(i)
  \/ \E r \in CalibrationInputs : CalibrateItems(r)

CatalogSpec == CatalogInit /\ [][CatalogNext]_vars

\* The parameters are those of a valid item.
ValidParameters(params) ==
  /\ params.discrimination > 0
  /\ 0 <= params.guessing
  /\ params.guessing < Unit

\* C21: set_item_parameters with discrimination <= 0 or guessing outside
\* [0, 1) fails with InvalidParameterError and leaves the catalog as it
\* was, so every entry of the catalog has discrimination > 0 and
\* 0 <= guessing < 1.
C21_InvalidParametersRejected ==
  /\ \A i \in DOMAIN item_parameters : ValidParameters(item_parameters[i])
  /\ (reply.op = "set_item_parameters" /\ ~ValidParameters(reply.parameters))
       => reply.error = "InvalidParameterError"

\* The step is a get_item_parameters call for item_id.
IsGetParametersStep(item_id) ==
  /\ reply'.op = "get_item_parameters"
  /\ reply'.item_id = item_id

\* C22: get_item_parameters is idempotent per item_id: for an unknown id it
\* adds one entry, the defaults (0.0, 1.0, 0.25), and returns it; for a
\* known id, created by an earlier call or set explicitly, it returns the
\* stored values and changes nothing.
C22_GetParametersIdempotent ==
  [][\A i \in Items :
       IsGetParametersStep(i)
         => IF i \in DOMAIN item_parameters
            THEN /\ item_parameters' = item_parameters
                 /\ reply'.result = item_parameters[i]
            ELSE /\ item_parameters' = DictSet(item_parameters, i, DefaultParameters)
                 /\ reply'.result = DefaultParameters
                 /\ DefaultParameters
                      = [difficulty |-> 0, discrimination |-> 1,
                         guessing |-> Unit \div 4]]_vars

\* get_item_parameters has answered with explicitly set values that are not
\* the defaults, and they are still in the catalog.
C22_Witness ==
  /\ reply.op = "get_item_parameters"
  /\ reply.result # DefaultParameters
  /\ reply.result \in ParameterInputs
  /\ item_parameters[reply.item_id] = reply.result

\* The items that occur in the response data of a calibrate_items reply.
Calibrated(r) == {r.records[k][1] : k \in DOMAIN r.records}

\* C23: calibrate_items sets, for every item that occurs in the records,
\* discrimination 1.0, guessing 0.25 and a finite difficulty that is zero
\* at one half correct, negative above, positive below, and never
\* increases as the proportion correct grows; the entries of the other
\* items are unchanged.
C23_CalibrationSetsDifficulty ==
  [][reply'.op = "calibrate_items" =>
       LET records == reply'.records
           ids == Calibrated(reply')
           n(i) == num_responses(records, i)
           c(i) == num_correct(records, i)
       IN /\ DOMAIN item_parameters' = (DOMAIN item_parameters) \cup ids
          /\ \A i \in (DOMAIN item_parameters) \ ids :
               item_parameters'[i] = item_parameters[i]
          /\ \A i \in ids :
               /\ item_parameters'[i].discrimination = 1
               /\ item_parameters'[i].guessing = Unit \div 4
               /\ item_parameters'[i].difficulty \in -5..5
               /\ 2 * c(i) = n(i) => item_parameters'[i].difficulty = 0
               /\ 2 * c(i) > n(i) => item_parameters'[i].difficulty < 0
               /\ 2 * c(i) < n(i) => item_parameters'[i].difficulty > 0
          /\ \A i \in ids, j \in ids :
               c(i) * n(j) <= c(j) * n(i)
                 => item_parameters'[i].difficulty
                      >= item_parameters'[j].difficulty]_vars

\* A calibration over two items, one answered correctly more often than
\* not and one less often, that left an explicitly set third item alone.
C23_Witness ==
  /\ reply.op = "calibrate_items"
  /\ \E i \in Calibrated(reply), j \in Calibrated(reply) :
       /\ item_parameters[i].difficulty < 0
       /\ item_parameters[j].difficulty > 0
  /\ \E i \in (DOMAIN item_parameters) \ Calibrated(reply) :
       item_parameters[i] \in ParameterInputs

\* ------------------------------------------------ the estimator by itself
\* estimate_ability and probability_correct_3pl called on the shared
\* ItemResponseTheory object.

\* The response sequences handed to estimate_ability.
EstimateInputs ==
  {<<>>,
   <<<<"i1", TRUE>>>>,
   <<<<"i3", FALSE>>>>,
   <<<<"i1", TRUE>>, <<"i2", FALSE>>>>}

\* The abilities probability_correct_3pl is asked at: the grid, and
\* abilities far outside it.
ProbabilityAbilities == (-ThetaMax..ThetaMax) \cup {-2000, -1000, 1000, 2000}

\* The valid items probability_correct_3pl is asked about.
ProbabilityParameters ==
  {[difficulty |-> 0, discrimination |-> 1, guessing |-> 25],
   [difficulty |-> -1, discrimination |-> 2, guessing |-> 0],
   [difficulty |-> 1, discrimination |-> 1, guessing |-> 0]}

\* irt.estimate_ability(responses, initial_ability)
EstimateAbility(responses, initial_ability) ==
  /\ item_parameters' =
       touch_items(item_parameters, {responses[k][1] : k \in DOMAIN responses})
  /\ reply' = [op |-> "estimate_ability", responses |-> responses,
               initial_ability |-> initial_ability, error |-> None,
               result |-> estimate_ability(responses, initial_ability,
                                           item_parameters)]
  /\ UNCHANGED <<cat_instances, student_abilities, status, requests>>

\* irt.probability_correct_3pl(ability, difficulty, discrimination, guessing)
ProbabilityCorrect(ability, params) ==
  /\ reply' = [op |-> "probability_correct_3pl", ability |-> ability,
               parameters |-> params, error |-> None,
               result |-> probability_correct_3pl(ability, params.difficulty,
                            params.discrimination, params.guessing)]
  /\ UNCHANGED <<cat_instances, student_abilities, item_parameters, status, requests>>

EstimateNext ==
  \/ \E r \in EstimateInputs, x \in -ThetaMax..ThetaMax : EstimateAbility(r, x)
  \/ \E x \in ProbabilityAbilities, p \in ProbabilityParameters :
       ProbabilityCorrect(x, p)

EstimateSpec == Init /\ [][EstimateNext]_vars

\* C24: estimate_ability called with no responses returns initial_ability
\* unchanged, whatever initial_ability is.
C24_EmptyHistoryKeepsInitial ==
  (reply.op = "estimate_ability" /\ reply.responses = <<>>)
    => reply.result = reply.initial_ability

\* estimate_ability has been called with no responses from an ability other
\* than the default 0.
C24_Witness ==
  /\ reply.op = "estimate_ability"
  /\ reply.responses = <<>>
  /\ reply.initial_ability # 0
  /\ reply.result = reply.initial_ability

\* The probability, for the item of the last probability_correct_3pl call,
\* at another ability, and the exponent a (theta - b) at an ability.
ProbabilityAt(ability) ==
  probability_correct_3pl(ability, reply.parameters.difficulty,
      reply.parameters.discrimination, reply.parameters.guessing)

ExponentAt(ability) ==
  reply.parameters.discrimination * (ability - reply.parameters.difficulty)

\* The exponent is moderate: the logistic function is far from both of its
\* limits.
Moderate(x) == -3 <= x /\ x <= 3

\* The reply is that of probability_correct_3pl for a valid item.
ProbabilityAnswered ==
  /\ reply.op = "probability_correct_3pl"
  /\ ValidParameters(reply.parameters)

\* C25 as stated: for every valid item and every ability the probability
\* lies strictly between c and 1 and is strictly increasing in the ability.
C25_StrictlyBetweenAndIncreasing ==
  ProbabilityAnswered =>
    /\ reply.parameters.guessing < reply.result
    /\ reply.result < Unit
    /\ \A x \in ProbabilityAbilities :
         x > reply.ability => ProbabilityAt(x) > reply.result

\* C25: for every valid item and every ability the probability lies
\* between c and 1, both included, and never decreases as the ability
\* grows; while the exponent is moderate it lies strictly between c and 1
\* and is strictly increasing.
C25_BetweenAndNondecreasing ==
  ProbabilityAnswered =>
    /\ reply.parameters.guessing <= reply.result
    /\ reply.result <= Unit
    /\ Moderate(ExponentAt(reply.ability))
         => reply.parameters.guessing < reply.result /\ reply.result < Unit
    /\ \A x \in ProbabilityAbilities :
         x > reply.ability
           => /\ ProbabilityAt(x) >= reply.result
              /\ (Moderate(ExponentAt(x)) /\ Moderate(ExponentAt(reply.ability)))
                   => ProbabilityAt(x) > reply.result

\* The probability asked at an ability far above the difficulty: exactly 1,
\* and the same at every greater ability.
C25_Witness ==
  /\ ProbabilityAnswered
  /\ reply.ability = 1000
  /\ reply.result = Unit
  /\ ProbabilityAt(2000) = reply.result

\* ------------------------------------------- long sessions and the defaults
\* should_terminate reads num_items and se_ability of the session and
\* nothing else.  The sessions it is asked about here are those
\* submit_response leaves after num_items responses: histories of that
\* length, se = 1/sqrt(num_items), any ability of the grid.

\* The longest session asked about.
MaxItemCount == 14

\* The item of the k-th response of a long session.
ItemOfResponse(k) == <<"i1", "i2", "i3">>[((k - 1) % 3) + 1]

\* The session submit_response leaves after num_items responses, all of
\* them is_correct, with the ability estimated at current_ability.
SessionAfter(student_id, num_items, is_correct, current_ability) ==
  [student_id |-> student_id,
   items_administered |-> [k \in 1..num_items |-> ItemOfResponse(k)],
   responses |-> [k \in 1..num_items |-> <<ItemOfResponse(k), is_correct>>],
   current_ability |-> current_ability,
   se_ability |-> IF num_items = 0 THEN 1 ELSE inv_sqrt(num_items),
   num_items |-> num_items]

LongInit ==
  /\ \E t \in TestIds, n \in 0..MaxItemCount, correct \in BOOLEAN,
        theta \in -ThetaMax..ThetaMax :
       /\ cat_instances =
            (t :> [item_bank |-> <<"i1", "i2", "i3">>,
                   test_sessions |-> (t :> SessionAfter("s1", n, correct, theta))])
       /\ student_abilities = ("s1" :> theta)
       /\ status = [x \in TestIds |-> IF x = t THEN "InProgress" ELSE "NotStarted"]
       /\ requests = [start |-> 1, submit |-> n]
  /\ item_parameters = touch_items(EmptyDict, Items)
  /\ reply = [op |-> "none"]

\* should_terminate(test_id) with its default parameters, and the results
\* read, on the instance of the session.
LongNext ==
  \/ \E t \in TestIds :
       ShouldTerminate(t, t, default_min_items, default_max_items,
                       default_target_se)
  \/ \E t \in TestIds : DirectGetTestResults(t, t)

LongSpec == LongInit /\ [][LongNext]_vars

\* The reply is that of should_terminate with the default parameters for a
\* session the instance holds.
DefaultsAnswered ==
  /\ AskedHeldSession
  /\ reply.op = "should_terminate"
  /\ reply.min_items = default_min_items
  /\ reply.max_items = default_max_items
  /\ reply.target_se = default_target_se

\* C26: with the default parameters (10, 50, 0.3) should_terminate is false
\* for every session of at most 11 responses and true for every session of
\* 12 or more, whatever the responses were: a session driven with the
\* defaults stops after exactly 12 responses, long before max_items.
C26_DefaultsStopAtTwelve ==
  DefaultsAnswered =>
    /\ reply.result = (AskedSession.num_items >= 12)
    /\ 12 < default_max_items

\* should_terminate with the defaults answered true for a session of
\* exactly 12 responses.
C26_Witness ==
  /\ DefaultsAnswered
  /\ AskedSession.num_items = 12
  /\ Len(AskedSession.responses) = 12
  /\ reply.result = TRUE

\* The parameters <<min_items, max_items, target_se>> the answer of
\* should_terminate is followed under, from one response to the next.
FollowedInputs ==
  TerminationInputs \cup DirectTerminationInputs
    \cup {<<0, 1, 30>>,
          <<default_min_items, default_max_items, default_target_se>>}

\* C27: for fixed (min_items, max_items, target_se), once should_terminate
\* is true for a session it is true after every further accepted
\* submit_response on that session.
C27_TerminationStaysTrue ==
  [][\A t \in DOMAIN cat_instances : \A p \in FollowedInputs :
       (/\ IsAcceptedSubmitStep(t)
        /\ should_terminate(cat_instances[t], t, p[1], p[2], p[3]))
         => should_terminate(cat_instances'[t], t, p[1], p[2], p[3])]_vars

\* A second response accepted by a session for which should_terminate, with
\* max_items 1, was true after the first already, and is true still.
C27_Witness ==
  /\ reply.op = "submit_response"
  /\ reply.http = 200
  /\ reply.test_id \in DOMAIN cat_instances
  /\ Session(reply.test_id).num_items = 2
  /\ should_terminate(
       [cat_instances[reply.test_id] EXCEPT
          !.test_sessions[reply.test_id] =
             SessionAfter(Session(reply.test_id).student_id, 1, TRUE, 0)],
       reply.test_id, 0, 1, 30)
  /\ should_terminate(cat_instances[reply.test_id], reply.test_id, 0, 1, 30)

\* ------------------------------------------------------ the caller's loop
\* A caller that starts one test and then repeats: get_next_item,
\* submit_response for the item returned, should_terminate.  The reply to
\* its last call is its position in the loop.

\* The responses the loop may submit before the model stops following it;
\* more than any bank holds.
LoopMaxSubmits == 4

\* The parameters <<min_items, max_items, target_se>> the loop asks
\* should_terminate with.
LoopTerminationInputs ==
  {<<default_min_items, default_max_items, default_target_se>>, <<1, 2, 30>>}

\* The loop is over: should_terminate was true, or get_next_item returned
\* None.
LoopDone ==
  \/ reply.op = "should_terminate" /\ reply.result = TRUE
  \/ reply.op = "cat.get_next_item" /\ reply.result = None

LoopStart(student_id, test_id, item_bank) ==
  /\ reply.op = "none"
  /\ StartAdaptiveTest(student_id, test_id, item_bank)

LoopGetNextItem(test_id) ==
  /\ \/ reply.op = "start_test"
     \/ reply.op = "should_terminate" /\ reply.result = FALSE
  /\ reply.test_id = test_id
  /\ DirectGetNextItem(test_id, test_id)

LoopSubmitResponse(test_id, is_correct) ==
  /\ reply.op = "cat.get_next_item"
  /\ reply.result # None
  /\ reply.test_id = test_id
  /\ requests.submit < LoopMaxSubmits
  /\ requests' = [requests EXCEPT !.submit = @ + 1]
  /\ LET done == submit_response(cat_instances[test_id], student_abilities,
                                 item_parameters, test_id, reply.result, is_correct)
     IN /\ cat_instances' = DictSet(cat_instances, test_id, done.cat)
        /\ student_abilities' = done.abilities
        /\ item_parameters' = done.catalog
        /\ reply' = [op |-> "cat.submit_response", instance |-> test_id,
                     test_id |-> test_id, item_id |-> reply.result,
                     is_correct |-> is_correct, error |-> None,
                     result |-> done.result]
  /\ UNCHANGED status

LoopShouldTerminate(test_id, min_items, max_items, target_se) ==
  /\ reply.op = "cat.submit_response"
  /\ reply.test_id = test_id
  /\ ShouldTerminate(test_id, test_id, min_items, max_items, target_se)

LoopNext ==
  \/ \E r \in StartInputs : LoopStart(r[1], r[2], r[3])
  \/ \E t \in TestIds : LoopGetNextItem(t)
  \/ \E t \in TestIds, c \in BOOLEAN : LoopSubmitResponse(t, c)
  \/ \E t \in TestIds, p \in LoopTerminationInputs :
       LoopShouldTerminate(t, p[1], p[2], p[3])

\* The caller keeps going as long as it has a next call to make.
LoopSpec == Init /\ [][LoopNext]_vars /\ WF_vars(LoopNext)

\* No session holds more responses than its bank holds items.
WithinBank ==
  \A t \in DOMAIN cat_instances :
    Session(t).num_items <= Len(cat_instances[t].item_bank)

\* C28: the loop 'get_next_item, submit_response for the returned item,
\* should_terminate' over a finite bank reaches, after at most as many
\* accepted responses as the bank has items, a step where should_terminate
\* is true or get_next_item returns None; it cannot run forever.
C28_LoopEnds == []WithinBank /\ <>LoopDone

\* The loop over a bank of three items ended by get_next_item returning
\* None after three responses.
C28_Witness ==
  /\ reply.op = "cat.get_next_item"
  /\ reply.result = None
  /\ Len(cat_instances[reply.test_id].item_bank) = 3
  /\ Session(reply.test_id).num_items = 3

\* The step is a request to the next-item, submit-response or results
\* endpoint for test_id.
IsSessionRequestStep(test_id) ==
  /\ reply'.op \in {"get_next_item", "submit_response", "get_test_results"}
  /\ reply'.test_id = test_id

\* C29: a request to the next-item, submit-response or results endpoint for
\* a test_id that is not in the registry is answered with HTTP status 404,
\* and the registry is unchanged.
C29_MissingTestAnswered404 ==
  [][\A t \in TestIds :
       (IsSessionRequestStep(t) /\ t \notin DOMAIN cat_instances)
         => /\ reply'.http = 404
            /\ cat_instances' = cat_instances]_vars

\* ---------------------------------------------------- the test generator
\* SSCPattern(): the four sections of the pattern, each with its number of
\* questions, its difficulty_distribution and its topic_weightage in the
\* order of the dict.
SSCPattern ==
  [total_questions |-> 100,
   sections |->
     << [name |-> "General Intelligence & Reasoning", questions |-> 25,
         difficulty_distribution |-> [easy |-> 8, medium |-> 12, hard |-> 5],
         topic_weightage |->
           << <<"Analogies", 3>>, <<"Classification", 2>>, <<"Coding-Decoding", 3>>,
              <<"Blood Relations", 2>>, <<"Direction Sense", 2>>,
              <<"Logical Reasoning", 4>>, <<"Puzzles", 3>>, <<"Series", 3>>,
              <<"Syllogism", 3>> >>],
        [name |-> "General Awareness", questions |-> 25,
         difficulty_distribution |-> [easy |-> 10, medium |-> 10, hard |-> 5],
         topic_weightage |->
           << <<"Current Affairs", 8>>, <<"History", 4>>, <<"Geography", 4>>,
              <<"Polity", 3>>, <<"Economics", 2>>, <<"Science", 4>> >>],
        [name |-> "Quantitative Aptitude", questions |-> 25,
         difficulty_distribution |-> [easy |-> 6, medium |-> 14, hard |-> 5],
         topic_weightage |->
           << <<"Arithmetic", 10>>, <<"Algebra", 3>>, <<"Geometry", 4>>,
              <<"Trigonometry", 2>>, <<"Statistics", 3>>,
              <<"Data Interpretation", 3>> >>],
        [name |-> "English Comprehension", questions |-> 25,
         difficulty_distribution |-> [easy |-> 8, medium |-> 12, hard |-> 5],
         topic_weightage |->
           << <<"Reading Comprehension", 5>>, <<"Grammar", 8>>, <<"Vocabulary", 7>>,
              <<"Error Detection", 3>>, <<"Fill in the Blanks", 2>> >>] >>]

\* count questions of one kind: the loop `for i in range(count)`.
repeat(count, question) == [k \in 1..count |-> question]

\* _get_questions_by_difficulty(topic, easy_count, medium_count, hard_count,
\* strict_ssc = True): difficulty in hundredths.
get_questions_by_difficulty(topic, easy_count, medium_count, hard_count) ==
  repeat(easy_count, [topic |-> topic, difficulty |-> 30, type |-> "basic_concept"])
    \o repeat(medium_count, [topic |-> topic, difficulty |-> 55, type |-> "application"])
    \o repeat(hard_count, [topic |-> topic, difficulty |-> 80, type |-> "complex_problem"])

\* The questions of one topic in _select_questions_for_section with
\* strict_ssc: int() of the topic's share of easy and of medium questions,
\* the rest hard.
topic_questions(topic, weight, difficulty_dist) ==
  LET total == difficulty_dist.easy + difficulty_dist.medium + difficulty_dist.hard
      questions_needed == weight
      easy_count == (questions_needed * difficulty_dist.easy) \div total
      medium_count == (questions_needed * difficulty_dist.medium) \div total
      hard_count == questions_needed - easy_count - medium_count
  IN get_questions_by_difficulty(topic, easy_count, medium_count, hard_count)

\* The loop of _select_questions_for_section over topic_weightage[i..].
RECURSIVE select_questions_loop(_, _, _)
select_questions_loop(topic_weightage, difficulty_dist, i) ==
  IF i > Len(topic_weightage) THEN <<>>
  ELSE topic_questions(topic_weightage[i][1], topic_weightage[i][2], difficulty_dist)
         \o select_questions_loop(topic_weightage, difficulty_dist, i + 1)

\* _select_questions_for_section(section_name, section_data, user_mastery,
\* strict_ssc = True); user_mastery is not read on this path.
select_questions_for_section(section_data, user_mastery) ==
  select_questions_loop(section_data.topic_weightage,
                        section_data.difficulty_distribution, 1)

\* _generate_full_mock_ssc(user_mastery)
generate_full_mock_ssc(user_mastery) ==
  [test_type |-> "SSC CGL Tier-1 Full Mock",
   total_questions |-> SSCPattern.total_questions,
   sections |->
     [k \in DOMAIN SSCPattern.sections |->
        LET section_data == SSCPattern.sections[k]
        IN [name |-> section_data.name,
            questions |-> select_questions_for_section(section_data, user_mastery),
            question_count |-> section_data.questions,
            difficulty_distribution |-> section_data.difficulty_distribution]]]

\* generate_test(test_type, user_id, user_mastery) with no customization:
\* the full mock is generated; the learning-adaptive test reads
\* customization.get of None, and _generate_topic_wise and
\* _generate_sectional_mock do not exist, so these three raise
\* AttributeError.
generate_test(test_type, user_id, user_mastery) ==
  IF test_type = "full_mock_ssc"
  THEN [error |-> None, result |-> generate_full_mock_ssc(user_mastery)]
  ELSE [error |-> "AttributeError", result |-> None]

\* The test types, and the mastery levels a user may report for three of
\* the topics.
TestTypes == {"full_mock_ssc", "learning_adaptive", "topic_wise", "sectional_mock"}

MasteryInputs == [{"Algebra", "Grammar", "History"} -> {2, 4, 7}]

\* ssc_adaptive.generate_test(test_type, user_id, user_mastery)
GenerateTest(test_type, user_id, user_mastery) ==
  LET generated == generate_test(test_type, user_id, user_mastery)
  IN /\ reply' = [op |-> "generate_test", test_type |-> test_type,
                  user_id |-> user_id, user_mastery |-> user_mastery,
                  error |-> generated.error, result |-> generated.result]
     /\ UNCHANGED <<cat_instances, student_abilities, item_parameters, status, requests>>

GenerateNext ==
  \E y \in TestTypes, u \in Students, um \in MasteryInputs : GenerateTest(y, u, um)

GenerateSpec == CatalogInit /\ [][GenerateNext]_vars

\* The number of questions of a type in a list of questions.
CountOfType(questions, type) ==
  Cardinality({k \in DOMAIN questions : questions[k].type = type})

\* The sum of the lengths of the question lists of sections[i..].
RECURSIVE TotalQuestions(_, _)
TotalQuestions(sections, i) ==
  IF i > Len(sections) THEN 0
  ELSE Len(sections[i].questions) + TotalQuestions(sections, i + 1)

\* C30: in a full SSC mock test the question list of every section holds
\* exactly the 25 questions the section declares (100 in total) and exactly
\* the numbers of easy, medium and hard questions of the section's
\* difficulty_distribution.
C30_SectionsMatchPattern ==
  (reply.op = "generate_test" /\ reply.test_type = "full_mock_ssc")
    => /\ reply.error = None
       /\ TotalQuestions(reply.result.sections, 1) = 100
       /\ \A k \in DOMAIN reply.result.sections :
            LET section == reply.result.sections[k]
            IN /\ section.question_count = 25
               /\ Len(section.questions) = section.question_count
               /\ CountOfType(section.questions, "basic_concept")
                    = section.difficulty_distribution.easy
               /\ CountOfType(section.questions, "application")
                    = section.difficulty_distribution.medium
               /\ CountOfType(section.questions, "complex_problem")
                    = section.difficulty_distribution.hard

====
